---- MODULE Spec2Model ----
(***************************************************************************)
(* Model of the person-events consumer (src/src/app.module.ts, main.ts):   *)
(* ConsumerService connects to RabbitMQ with retry and backoff, declares   *)
(* the queue, registers a consume callback, and for every delivery parses  *)
(* the body, upserts the person into MySQL and acks or nacks the message.  *)
(***************************************************************************)
EXTENDS Integers, Sequences, FiniteSets, TLC

(***************************************************************************)
(* Bounds of the model and constants of the program.                       *)
(***************************************************************************)
\* number of messages the broker delivers in a run
MaxDeliveries == 2
\* connectRabbit: const maxRetries = 10
maxRetries == 10
\* mysql.createPool({ connectionLimit: 10 })
connectionLimit == 10
\* Math.min(1000 * Math.pow(2, retries - 1), 30000)
baseDelayMs == 1000
capDelayMs == 30000
\* process.exit(1)
exitStatus == 1

(***************************************************************************)
(* JavaScript values, as JSON.parse produces them.  Every value is a       *)
(* tagged record; an object carries a function from its own keys to        *)
(* values.  Undefined is what reading an absent property yields.           *)
(***************************************************************************)
Undefined == [t |-> "undefined"]
Null == [t |-> "null"]
Str(s) == [t |-> "string", v |-> s]
Num(n) == [t |-> "number", v |-> n]
Bool(b) == [t |-> "boolean", v |-> b]
Obj(f) == [t |-> "object", f |-> f]

\* a Buffer whose text is not JSON, and one whose text is the JSON of v
NotJson == [json |-> FALSE]
Json(v) == [json |-> TRUE, val |-> v]

\* o.k : property read.  Reading a property of null or undefined throws.
Throws(o) == o.t \in {"null", "undefined"}
Get(o, k) == IF o.t = "object" /\ k \in DOMAIN o.f THEN o.f[k] ELSE Undefined

\* a ?? b
Nullish(a, b) == IF a.t \in {"null", "undefined"} THEN b ELSE a

\* !v is false
Truthy(v) ==
  CASE v.t = "undefined" -> FALSE
    [] v.t = "null" -> FALSE
    [] v.t = "string" -> v.v # ""
    [] v.t = "number" -> v.v # "0"
    [] v.t = "boolean" -> v.v = "true"
    [] OTHER -> TRUE

(***************************************************************************)
(* parseMessage: JSON.parse, then eventData = obj.eventData ?? obj and the *)
(* five fields.  The result is either a record or the error thrown.        *)
(***************************************************************************)
Thrown(e) == [ok |-> FALSE, err |-> e]
Returned(r) == [ok |-> TRUE, rec |-> r]

\* a parser that knows the flat shape only
EventDataTopLevel(obj) == obj
EventDataOf(obj) == Nullish(Get(obj, "eventData"), obj)

parseMessage(msg) ==
  IF ~msg.json THEN Thrown("SyntaxError")
  ELSE LET obj == msg.val
       IN  IF Throws(obj) THEN Thrown("TypeError")
           ELSE LET eventData == EventDataOf(obj)
                IN  Returned([id |-> Get(eventData, "id"),
                              name |-> Get(eventData, "name"),
                              email |-> Get(eventData, "email"),
                              createdAt |-> Nullish(Get(eventData, "createdAt"), Get(obj, "createdAt")),
                              updatedAt |-> Nullish(Get(eventData, "updatedAt"), Get(obj, "updatedAt"))])

(***************************************************************************)
(* State.                                                                  *)
(***************************************************************************)
VARIABLES
  pc,            \* where bootstrap / onModuleInit stands
  retries,       \* connectRabbit: let retries
  lastError,     \* connectRabbit: let lastError ("null" before any failure)
  attempts,      \* calls of connect(url) made so far
  delays,        \* the setTimeout delays connectRabbit has waited, in order
  fault,         \* the error the latest failed await rejected with
  connection,    \* this.connection: 0 is null, else the id of a connection
  channel,       \* this.channel: 0 is null, else the id of its connection
  openConns,     \* broker connections that are open
  openChannels,  \* channels that are open (named by their connection)
  thrown,        \* the error onModuleInit rejected with (NoError if none)
  exitCode,      \* the status process.exit was called with (-1: running)
  queueDeclared, \* assertQueue(queue, {durable: true}) has succeeded
  consumerOn     \* channel.consume(queue, callback, {noAck: false}) was called

startVars == <<pc, retries, lastError, attempts, delays, fault, connection, channel,
               openConns, openChannels, thrown, exitCode, queueDeclared, consumerOn>>

VARIABLES
  delivered,     \* deliveries made so far; delivery m is handled by handler m
  hpc,           \* hpc[m]: where handler m stands
  body,          \* body[m]: msg.content of delivery m
  stmt,          \* stmt[m]: the parameters handler m passed to conn.execute
  disp,          \* disp[m]: the acks and nacks issued for delivery m, in order
  borrowed,      \* handlers that hold a pool connection
  getConnCalls,  \* getConnCalls[m]: calls of mysqlPool.getConnection by handler m
  execCalls,     \* execCalls[m]: calls of conn.execute by handler m
  table,         \* the rows of table persons
  applied,       \* the statements the database has executed, in order
  err,           \* err[m]: the error handler m's try block threw ("none" if none)
  escaped,       \* handlers whose promise rejected (an error left the callback)
  afterFailure   \* afterFailure[m]: a handler had ended in an error when m was delivered

runVars == <<delivered, hpc, body, stmt, disp, borrowed, getConnCalls, execCalls,
             table, applied, err, escaped, afterFailure>>

\* a call of parseMessage on its own: the payloads given and the records returned
VARIABLES
  arg,           \* the id, name and email of the payloads parsed
  ret            \* what parseMessage returned for each shape ("wrapped", "flat")

callVars == <<arg, ret>>

VARIABLES
  dpc,           \* where onModuleDestroy stands ("idle" until Nest calls it)
  teardown,      \* the close calls onModuleDestroy has made, in order
  failed         \* the close calls whose promise rejected

downVars == <<dpc, teardown, failed>>

vars == <<startVars, runVars, callVars, downVars>>

\* messages of the errors connect / createChannel / assertQueue reject with
Errors == {"ECONNREFUSED", "ETIMEDOUT"}

\* Math.min(1000 * Math.pow(2, retries - 1), 30000)
Min(a, b) == IF a < b THEN a ELSE b
\* the delay with the exponent one too high
delayMsFromTwo(k) == Min(baseDelayMs * 2^k, capDelayMs)
delayMs(k) == Min(baseDelayMs * 2^(k - 1), capDelayMs)

\* new Error(`Failed to connect to RabbitMQ after ${maxRetries} attempts: ${lastError?.message}`)
\* `after` is 0 for an error that is not connectRabbit's own
ConnectError(n, cause) == [after |-> n, message |-> cause]
PlainError(m) == [after |-> 0, message |-> m]
NoError == PlainError("none")

StartInit ==
  /\ pc = "connect"
  /\ retries = 0
  /\ lastError = "null"
  /\ attempts = 0
  /\ delays = <<>>
  /\ fault = "null"
  /\ connection = 0
  /\ channel = 0
  /\ openConns = {}
  /\ openChannels = {}
  /\ thrown = NoError
  /\ exitCode = -1
  /\ queueDeclared = FALSE
  /\ consumerOn = FALSE

\* onModuleDestroy has not been called
DownInit ==
  /\ dpc = "idle"
  /\ teardown = <<>>
  /\ failed = {}

(***************************************************************************)
(* connectRabbit.  One loop iteration: await connect(url), assign          *)
(* this.connection, await createChannel(), assign this.channel, return; a  *)
(* rejection of either await lands in the catch block, which counts the    *)
(* retry, computes the delay and waits for it.                             *)
(***************************************************************************)
\* the catch block of the retry loop, up to the await of the timer
CatchRetry(e) ==
  /\ lastError' = e
  /\ retries' = retries + 1
  /\ delays' = Append(delays, delayMs(retries + 1))
  /\ pc' = "sleep"

ConnectResolve ==
  /\ pc = "connect"
  /\ attempts' = attempts + 1
  /\ LET id == Cardinality(openConns) + 1
     IN  /\ connection' = id
         /\ openConns' = openConns \cup {id}
  /\ pc' = "createChannel"
  /\ UNCHANGED <<retries, lastError, delays, fault, channel, openChannels, thrown,
                 exitCode, queueDeclared, consumerOn>>
  /\ UNCHANGED <<runVars, callVars, downVars>>

ConnectReject ==
  /\ pc = "connect"
  /\ attempts' = attempts + 1
  /\ \E e \in Errors : fault' = e /\ CatchRetry(e)
  /\ UNCHANGED <<connection, channel, openConns, openChannels, thrown,
                 exitCode, queueDeclared, consumerOn>>
  /\ UNCHANGED <<runVars, callVars, downVars>>

CreateChannelResolve ==
  /\ pc = "createChannel"
  /\ channel' = connection
  /\ openChannels' = openChannels \cup {connection}
  /\ pc' = "ensureQueue"
  /\ UNCHANGED <<retries, lastError, attempts, delays, fault, connection, openConns,
                 thrown, exitCode, queueDeclared, consumerOn>>
  /\ UNCHANGED <<runVars, callVars, downVars>>

\* createChannel rejects.  The connection may have gone down with it or may
\* still be open; the catch block does not close it, and this.connection
\* keeps the reference until the next attempt overwrites it.
CreateChannelReject ==
  /\ pc = "createChannel"
  /\ \E e \in Errors : fault' = e /\ CatchRetry(e)
  /\ \E gone \in BOOLEAN :
       openConns' = IF gone THEN openConns \ {connection} ELSE openConns
  /\ UNCHANGED <<attempts, connection, channel, openChannels, thrown,
                 exitCode, queueDeclared, consumerOn>>
  /\ UNCHANGED <<runVars, callVars, downVars>>

\* the timer fires: the loop condition is tested again; when it fails the
\* function throws, and onModuleInit (which awaits it bare) rejects with it
\* the loop test off by one
LoopTestInclusive(r) == r <= maxRetries
LoopTest(r) == r < maxRetries

TimerFires ==
  /\ pc = "sleep"
  /\ IF LoopTest(retries)
       THEN pc' = "connect" /\ thrown' = thrown
       ELSE pc' = "rejected" /\ thrown' = ConnectError(maxRetries, lastError)
  /\ UNCHANGED <<retries, lastError, attempts, delays, fault, connection, channel,
                 openConns, openChannels, exitCode, queueDeclared, consumerOn>>
  /\ UNCHANGED <<runVars, callVars, downVars>>

(***************************************************************************)
(* ensureQueue, consume (the registration), and bootstrap's catch.         *)
(***************************************************************************)
\* onModuleInit without its call of ensureQueue
EnsureQueueSkipped ==
  /\ pc = "ensureQueue"
  /\ pc' = "consume"
  /\ UNCHANGED <<retries, lastError, attempts, delays, fault, connection, channel,
                 openConns, openChannels, thrown, exitCode, queueDeclared, consumerOn>>
  /\ UNCHANGED <<runVars, callVars, downVars>>

EnsureQueue ==
  /\ pc = "ensureQueue"
  /\ IF channel = 0
       THEN pc' = "rejected" /\ thrown' = PlainError("Channel not initialized")
            /\ queueDeclared' = queueDeclared
       ELSE \/ pc' = "consume" /\ queueDeclared' = TRUE /\ thrown' = thrown
            \/ \E e \in Errors :
                 pc' = "rejected" /\ thrown' = PlainError(e)
                 /\ queueDeclared' = queueDeclared
  /\ UNCHANGED <<retries, lastError, attempts, delays, fault, connection, channel,
                 openConns, openChannels, exitCode, consumerOn>>
  /\ UNCHANGED <<runVars, callVars, downVars>>

Consume ==
  /\ pc = "consume"
  /\ IF channel = 0
       THEN pc' = "rejected" /\ thrown' = PlainError("Channel not initialized")
            /\ consumerOn' = consumerOn
       ELSE pc' = "running" /\ consumerOn' = TRUE /\ thrown' = thrown
  /\ UNCHANGED <<retries, lastError, attempts, delays, fault, connection, channel,
                 openConns, openChannels, exitCode, queueDeclared>>
  /\ UNCHANGED <<runVars, callVars, downVars>>

\* bootstrap().catch((err) => { console.error(...); process.exit(1); })
BootstrapCatch ==
  /\ pc = "rejected"
  /\ exitCode' = exitStatus
  /\ pc' = "exited"
  /\ UNCHANGED <<retries, lastError, attempts, delays, fault, connection, channel,
                 openConns, openChannels, thrown, queueDeclared, consumerOn>>
  /\ UNCHANGED <<runVars, callVars, downVars>>

Startup ==
  \/ ConnectResolve
  \/ ConnectReject
  \/ CreateChannelResolve
  \/ CreateChannelReject
  \/ TimerFires
  \/ EnsureQueue
  \/ Consume
  \/ BootstrapCatch

(***************************************************************************)
(* The consume callback.  amqplib calls it for every delivery and does not *)
(* await the promise it returns, and no prefetch limit is set on the       *)
(* channel: a delivery can arrive while earlier handlers are suspended at  *)
(* an await.  Each handler is a little process of its own.                 *)
(***************************************************************************)
Deliveries == 1..MaxDeliveries

\* timestamps a message can carry, and the Date each parses to
DateStrings == {"2024-01-01", "2024-01-02"}
DateOf(s) ==
  CASE s = "2024-01-01" -> 1
    [] s = "2024-01-02" -> 2
    [] OTHER -> 0
\* what new Date() can return while the service runs
ProcessingTimes == {3, 4}

\* the message bodies the broker delivers
Flat(id, name, email) == [id |-> Str(id), name |-> Str(name), email |-> Str(email)]
Bodies ==
  { NotJson,
    Json(Null),
    Json(Obj(Flat("1", "A", "a@x") @@
             [createdAt |-> Str("2024-01-01"), updatedAt |-> Str("2024-01-02")])),
    Json(Obj([eventData |-> Obj(Flat("1", "B", "b@x")),
              updatedAt |-> Str("2024-01-01")])),
    Json(Obj(Flat("2", "C", "c@x"))),
    Json(Obj([id |-> Str("1"), name |-> Str("A")])),
    Json(Obj(Flat("", "A", "a@x"))) }

NoStmt == [id |-> "", name |-> "", email |-> "", createdAt |-> 0, updatedAt |-> 0]

RunInit ==
  /\ delivered = 0
  /\ hpc = [m \in Deliveries |-> "idle"]
  /\ body = [m \in Deliveries |-> NotJson]
  /\ stmt = [m \in Deliveries |-> NoStmt]
  /\ disp = [m \in Deliveries |-> <<>>]
  /\ borrowed = {}
  /\ getConnCalls = [m \in Deliveries |-> 0]
  /\ execCalls = [m \in Deliveries |-> 0]
  /\ table = {}
  /\ applied = <<>>
  /\ err = [m \in Deliveries |-> "none"]
  /\ escaped = {}
  /\ afterFailure = [m \in Deliveries |-> FALSE]

(***************************************************************************)
(* upsertPerson.                                                           *)
(***************************************************************************)
\* the check without its first operand
InvalidNoId(data) == ~Truthy(data.name) \/ ~Truthy(data.email)

\* if (!data.id || !data.name || !data.email) throw
Invalid(data) == ~Truthy(data.id) \/ ~Truthy(data.name) \/ ~Truthy(data.email)

\* data.createdAt ? new Date(data.createdAt) : new Date()
DateParam(v, now) == IF Truthy(v) THEN DateOf(v.v) ELSE now

\* [data.id, data.name, data.email, createdAt, updatedAt]
Params(data, nowC, nowU) ==
  [id |-> data.id.v, name |-> data.name.v, email |-> data.email.v,
   createdAt |-> DateParam(data.createdAt, nowC),
   updatedAt |-> DateParam(data.updatedAt, nowU)]

\* an update clause that also lists createdAt = VALUES(createdAt)
OnDuplicateAll(row, p) == [row EXCEPT !.name = p.name, !.email = p.email,
                                      !.createdAt = p.createdAt,
                                      !.updatedAt = p.updatedAt]

\* INSERT INTO persons ... ON DUPLICATE KEY UPDATE name, email, updatedAt
OnDuplicate(row, p) == [row EXCEPT !.name = p.name, !.email = p.email,
                                   !.updatedAt = p.updatedAt]
\* a plain INSERT issued after a separate SELECT that found no row
InsertBlind(rows, p) == rows \cup {p}

Upsert(rows, p) ==
  IF \E r \in rows : r.id = p.id
    THEN {IF r.id = p.id THEN OnDuplicate(r, p) ELSE r : r \in rows}
    ELSE rows \cup {p}

(***************************************************************************)
(* channel.ack / channel.nack through this.channel!: the call throws when  *)
(* the field is null or the channel is closed, and then nothing is sent.   *)
(***************************************************************************)
ChannelUsable == channel # 0 /\ channel \in openChannels

AckOf == [kind |-> "ack", allUpTo |-> FALSE, requeue |-> FALSE]
\* nack(msg) with amqplib's default requeue
NackRequeue == [kind |-> "nack", allUpTo |-> FALSE, requeue |-> TRUE]
\* this.channel!.nack(msg, false, false)
NackOf == [kind |-> "nack", allUpTo |-> FALSE, requeue |-> FALSE]

\* a catch block that logs and does not nack
CatchBlockLogOnly(m) ==
  /\ disp' = disp
  /\ hpc' = [hpc EXCEPT ![m] = "done"]
  /\ escaped' = escaped

\* a catch block that logs and throws the error again
CatchBlockRethrow(m) ==
  /\ disp' = disp
  /\ hpc' = [hpc EXCEPT ![m] = "crashed"]
  /\ escaped' = escaped \cup {m}

\* the catch block: logger.error, then nack; a throw of nack leaves the callback
CatchBlock(m) ==
  IF ChannelUsable
    THEN /\ disp' = [disp EXCEPT ![m] = Append(@, NackOf)]
         /\ hpc' = [hpc EXCEPT ![m] = "done"]
         /\ escaped' = escaped
    ELSE /\ disp' = disp
         /\ hpc' = [hpc EXCEPT ![m] = "crashed"]
         /\ escaped' = escaped \cup {m}

\* the handlers that have run to their end
Ended == {k \in Deliveries : hpc[k] \in {"done", "crashed"}}

\* The broker delivers a message (on the open channel the consumer was
\* registered on): the callback runs to its first await.
\* parseMessage throwing goes straight to the catch block; otherwise
\* upsertPerson validates and either rejects or asks the pool for a connection.
Deliver ==
  /\ pc = "running"
  /\ consumerOn
  /\ ChannelUsable
  /\ delivered < MaxDeliveries
  /\ \E b \in Bodies :
       LET m == delivered + 1
           p == parseMessage(b)
       IN  /\ delivered' = m
           /\ body' = [body EXCEPT ![m] = b]
           /\ afterFailure' = [afterFailure EXCEPT ![m] = \E k \in Ended : err[k] # "none"]
           /\ IF ~p.ok
                THEN /\ err' = [err EXCEPT ![m] = p.err]
                     /\ CatchBlock(m)
                     /\ getConnCalls' = getConnCalls
                ELSE /\ IF Invalid(p.rec)
                          THEN /\ err' = [err EXCEPT ![m] = "Missing required person fields"]
                               /\ hpc' = [hpc EXCEPT ![m] = "catch"]
                               /\ getConnCalls' = getConnCalls
                          ELSE /\ err' = err
                               /\ hpc' = [hpc EXCEPT ![m] = "awaitConn"]
                               /\ getConnCalls' = [getConnCalls EXCEPT ![m] = @ + 1]
                     /\ UNCHANGED <<disp, escaped>>
  /\ UNCHANGED <<stmt, borrowed, execCalls, table, applied>>
  /\ UNCHANGED <<startVars, callVars, downVars>>

\* mysqlPool.end() has been called: the pool hands out nothing any more
PoolEnded == \E i \in DOMAIN teardown : teardown[i] = "pool.end"

\* the pool hands out a connection; the handler builds the parameters and
\* calls conn.execute
GetConnectionResolve(m) ==
  /\ hpc[m] = "awaitConn"
  /\ ~PoolEnded
  /\ Cardinality(borrowed) < connectionLimit
  /\ borrowed' = borrowed \cup {m}
  /\ \E nowC \in ProcessingTimes, nowU \in ProcessingTimes :
       /\ nowC <= nowU
       /\ stmt' = [stmt EXCEPT ![m] = Params(parseMessage(body[m]).rec, nowC, nowU)]
  /\ execCalls' = [execCalls EXCEPT ![m] = @ + 1]
  /\ hpc' = [hpc EXCEPT ![m] = "awaitExec"]
  /\ UNCHANGED <<delivered, body, disp, getConnCalls, table, applied, err, escaped,
                 afterFailure>>
  /\ UNCHANGED <<startVars, callVars, downVars>>

\* getConnection rejects (the database cannot be reached)
GetConnectionReject(m) ==
  /\ hpc[m] = "awaitConn"
  /\ err' = [err EXCEPT ![m] = "pool error"]
  /\ hpc' = [hpc EXCEPT ![m] = "catch"]
  /\ UNCHANGED <<delivered, body, stmt, disp, borrowed, getConnCalls, execCalls,
                 table, applied, escaped, afterFailure>>
  /\ UNCHANGED <<startVars, callVars, downVars>>

\* the database executes the statement and answers
ExecuteResolve(m) ==
  /\ hpc[m] = "awaitExec"
  /\ table' = Upsert(table, stmt[m])
  /\ applied' = Append(applied, [by |-> m, row |-> stmt[m]])
  /\ hpc' = [hpc EXCEPT ![m] = "resolved"]
  /\ UNCHANGED <<delivered, body, stmt, disp, borrowed, getConnCalls, execCalls,
                 err, escaped, afterFailure>>
  /\ UNCHANGED <<startVars, callVars, downVars>>

\* the statement fails
ExecuteReject(m) ==
  /\ hpc[m] = "awaitExec"
  /\ err' = [err EXCEPT ![m] = "storage error"]
  /\ hpc' = [hpc EXCEPT ![m] = "failed"]
  /\ UNCHANGED <<delivered, body, stmt, disp, borrowed, getConnCalls, execCalls,
                 table, applied, escaped, afterFailure>>
  /\ UNCHANGED <<startVars, callVars, downVars>>

\* a finally block that returns, which discards the pending error
AfterFinallySwallow(at) == "returned"

\* finally { conn.release() }
AfterFinally(at) == IF at = "resolved" THEN "returned" ELSE "catch"

\* conn.release() as the last statement of the try, with no finally
ReleaseOnSuccess(m) ==
  /\ hpc[m] \in {"resolved", "failed"}
  /\ borrowed' = IF hpc[m] = "resolved" THEN borrowed \ {m} ELSE borrowed
  /\ hpc' = [hpc EXCEPT ![m] = AfterFinally(hpc[m])]
  /\ UNCHANGED <<delivered, body, stmt, disp, getConnCalls, execCalls, table,
                 applied, err, escaped, afterFailure>>
  /\ UNCHANGED <<startVars, callVars, downVars>>

Release(m) ==
  /\ hpc[m] \in {"resolved", "failed"}
  /\ borrowed' = borrowed \ {m}
  /\ hpc' = [hpc EXCEPT ![m] = AfterFinally(hpc[m])]
  /\ UNCHANGED <<delivered, body, stmt, disp, getConnCalls, execCalls, table,
                 applied, err, escaped, afterFailure>>
  /\ UNCHANGED <<startVars, callVars, downVars>>

\* upsertPerson returned: this.channel!.ack(msg), then the log line.  A throw
\* of ack is caught by the same try.
Ack(m) ==
  /\ hpc[m] = "returned"
  /\ IF ChannelUsable
       THEN /\ disp' = [disp EXCEPT ![m] = Append(@, AckOf)]
            /\ hpc' = [hpc EXCEPT ![m] = "done"]
            /\ err' = err
       ELSE /\ disp' = disp
            /\ hpc' = [hpc EXCEPT ![m] = "catch"]
            /\ err' = [err EXCEPT ![m] = "channel error"]
  /\ UNCHANGED <<delivered, body, stmt, borrowed, getConnCalls, execCalls, table,
                 applied, escaped, afterFailure>>
  /\ UNCHANGED <<startVars, callVars, downVars>>

\* the await of upsertPerson threw
Catch(m) ==
  /\ hpc[m] = "catch"
  /\ CatchBlock(m)
  /\ UNCHANGED <<delivered, body, stmt, borrowed, getConnCalls, execCalls, table,
                 applied, err, afterFailure>>
  /\ UNCHANGED <<startVars, callVars, downVars>>

Handler(m) ==
  \/ GetConnectionResolve(m)
  \/ GetConnectionReject(m)
  \/ ExecuteResolve(m)
  \/ ExecuteReject(m)
  \/ Release(m)
  \/ Ack(m)
  \/ Catch(m)

(***************************************************************************)
(* onModuleDestroy, which Nest calls when the application context closes.  *)
(* Each close call is awaited behind .catch(() => undefined).  A channel   *)
(* or connection on which close() has been called accepts no further       *)
(* frames, whatever the promise of close() settles with.                   *)
(***************************************************************************)
Outcomes == {"fulfilled", "rejected"}

\* an await without the .catch
CatchNothing(outcome) == outcome
\* promise.catch(() => undefined): the awaited promise always fulfils
CatchUndefined(outcome) == "fulfilled"

\* this.channel.close(), up to its await
CallChannelClose ==
  /\ dpc' = "channelClose"
  /\ teardown' = Append(teardown, "channel.close")
  /\ openChannels' = openChannels \ {channel}
  /\ openConns' = openConns

\* this.connection.close(), up to its await; the channels of the connection
\* close with it
CallConnectionClose ==
  /\ dpc' = "connectionClose"
  /\ teardown' = Append(teardown, "connection.close")
  /\ openConns' = openConns \ {connection}
  /\ openChannels' = openChannels \ {connection}

\* this.mysqlPool.end(), up to its await
CallPoolEnd ==
  /\ dpc' = "poolEnd"
  /\ teardown' = Append(teardown, "pool.end")
  /\ UNCHANGED <<openConns, openChannels>>

\* the close calls whose promise rejected, after call c settled with o
Failures(c, o) == IF o = "rejected" THEN failed \cup {c} ELSE failed

\* Every handler stands at an await of the pool or of the database, or has
\* not started or has ended.  The steps of a handler between two such awaits
\* are continuations of one event-loop turn; the call of onModuleDestroy and
\* the settling of its close promises come in turns of their own.
HandlersAtAwait ==
  \A m \in Deliveries : hpc[m] \in {"idle", "awaitConn", "awaitExec", "done", "crashed"}

\* Nest calls onModuleDestroy: it runs to its first await
DestroyBegin ==
  /\ pc = "running"
  /\ dpc = "idle"
  /\ HandlersAtAwait
  /\ IF channel # 0 THEN CallChannelClose
     ELSE IF connection # 0 THEN CallConnectionClose
     ELSE CallPoolEnd
  /\ UNCHANGED <<pc, retries, lastError, attempts, delays, fault, connection, channel,
                 thrown, exitCode, queueDeclared, consumerOn, failed>>
  /\ UNCHANGED <<runVars, callVars>>

\* the promise of channel.close() settles; this.channel = null; next step
ChannelCloseSettles ==
  /\ dpc = "channelClose"
  /\ HandlersAtAwait
  /\ \E o \in Outcomes :
       /\ failed' = Failures("channel.close", o)
       /\ IF CatchUndefined(o) = "fulfilled"
            THEN /\ channel' = 0
                 /\ IF connection # 0 THEN CallConnectionClose ELSE CallPoolEnd
            ELSE /\ dpc' = "rejected"
                 /\ UNCHANGED <<channel, teardown, openConns, openChannels>>
  /\ UNCHANGED <<pc, retries, lastError, attempts, delays, fault, connection,
                 thrown, exitCode, queueDeclared, consumerOn>>
  /\ UNCHANGED <<runVars, callVars>>

\* the promise of connection.close() settles; this.connection = null; next step
ConnectionCloseSettles ==
  /\ dpc = "connectionClose"
  /\ HandlersAtAwait
  /\ \E o \in Outcomes :
       /\ failed' = Failures("connection.close", o)
       /\ IF CatchUndefined(o) = "fulfilled"
            THEN /\ connection' = 0
                 /\ CallPoolEnd
            ELSE /\ dpc' = "rejected"
                 /\ UNCHANGED <<connection, teardown, openConns, openChannels>>
  /\ UNCHANGED <<pc, retries, lastError, attempts, delays, fault, channel,
                 thrown, exitCode, queueDeclared, consumerOn>>
  /\ UNCHANGED <<runVars, callVars>>

\* the promise of mysqlPool.end() settles; onModuleDestroy returns
PoolEndSettles ==
  /\ dpc = "poolEnd"
  /\ HandlersAtAwait
  /\ \E o \in Outcomes :
       /\ failed' = Failures("pool.end", o)
       /\ dpc' = IF CatchUndefined(o) = "fulfilled" THEN "returned" ELSE "rejected"
  /\ UNCHANGED teardown
  /\ UNCHANGED <<startVars, runVars, callVars>>

Destroy ==
  \/ DestroyBegin
  \/ ChannelCloseSettles
  \/ ConnectionCloseSettles
  \/ PoolEndSettles

(***************************************************************************)
(* parseMessage on its own, applied to the wrapped and to the flat payload *)
(* of the same id, name and email.                                         *)
(***************************************************************************)
\* values a JSON field can hold (absent stands for a key that is not there)
Absent == [t |-> "absent"]
FieldValues == {Absent, Null, Str(""), Str("1"), Str("A"), Str("a@x.com"),
                Num("0"), Num("7"), Bool("false")}

\* the object with the keys of r that are present
ObjectOf(r) == Obj([k \in {k \in DOMAIN r : r[k] # Absent} |-> r[k]])

FlatPayload(a) == Json(ObjectOf(a))
WrappedPayload(a) == Json(Obj([eventData |-> ObjectOf(a)]))

NotCalled == [wrapped |-> Thrown("not called"), flat |-> Thrown("not called")]

CallInit ==
  /\ arg = [id |-> Absent, name |-> Absent, email |-> Absent]
  /\ ret = NotCalled

ParseBoth ==
  /\ ret = NotCalled
  /\ ret' = [wrapped |-> parseMessage(WrappedPayload(arg)),
             flat |-> parseMessage(FlatPayload(arg))]
  /\ UNCHANGED <<arg, startVars, runVars, downVars>>

\* parseMessage applied to one payload that has an eventData field of any
\* kind next to id, name and email at the top level
EventDataValues == {Absent, Null, Str(""), Str("x"), Num("0"), Num("7"),
                    Bool("false"), Bool("true"), Obj(Flat("9", "Z", "z@x"))}

ParseMixed ==
  /\ ret = NotCalled
  /\ ret' = [mixed |-> parseMessage(Json(ObjectOf(arg)))]
  /\ UNCHANGED <<arg, startVars, runVars, downVars>>

\* parseMessage and the parameters upsertPerson builds from its record, for a
\* payload of either shape with createdAt and updatedAt of every kind inside
\* eventData and at the top level
TimestampValues == {Absent, Null, Str("2024-01-01"), Str("2024-01-02"), Num("0")}

StampedPayload(a) ==
  IF a.shape = "wrapped"
    THEN Json(ObjectOf([eventData |-> ObjectOf(Flat("1", "A", "a@x") @@
                                                [createdAt |-> a.inCreated,
                                                 updatedAt |-> a.inUpdated]),
                        createdAt |-> a.outCreated,
                        updatedAt |-> a.outUpdated]))
    ELSE Json(ObjectOf(Flat("1", "A", "a@x") @@
                       [createdAt |-> a.outCreated, updatedAt |-> a.outUpdated]))

StampBoth ==
  /\ ret = NotCalled
  /\ \E nowC \in ProcessingTimes, nowU \in ProcessingTimes :
       /\ nowC <= nowU
       /\ ret' = [nowC |-> nowC, nowU |-> nowU,
                  params |-> Params(parseMessage(StampedPayload(arg)).rec, nowC, nowU)]
  /\ UNCHANGED <<arg, startVars, runVars, downVars>>

\* upsertPerson called twice in a row with the same record, the pool and the
\* database answering both times: the table after a call that starts on rows
upsertPerson(rows, data, nowC, nowU) ==
  IF Invalid(data) THEN rows ELSE Upsert(rows, Params(data, nowC, nowU))

\* tables of persons: at most one row per id (id is the primary key)
StoredRows == [id : {"1", "2"}, name : {"A", "B"}, email : {"a@x"},
               createdAt : {1, 2}, updatedAt : {2}]
Tables == {t \in SUBSET StoredRows :
             /\ Cardinality(t) <= 2
             /\ \A r, q \in t : r.id = q.id => r = q}

\* records that carry a createdAt and an updatedAt
ExplicitTimestamps == {Str("2024-01-01"), Str("2024-01-02"), Num("0")}
ExplicitRecords == [id : {Str("1")}, name : {Str("A"), Str("B")}, email : {Str("a@x")},
                    createdAt : ExplicitTimestamps, updatedAt : ExplicitTimestamps]

UpsertTwice ==
  /\ ret = NotCalled
  /\ \E n1 \in ProcessingTimes, n2 \in ProcessingTimes :
       /\ n1 <= n2
       /\ LET once == upsertPerson(arg.table, arg.data, n1, n1)
          IN  ret' = [once |-> once,
                      twice |-> upsertPerson(once, arg.data, n2, n2)]
  /\ UNCHANGED <<arg, startVars, runVars, downVars>>

(***************************************************************************)
(* The service as main.ts runs it: bootstrap creates the application       *)
(* context, which constructs ConsumerService and awaits onModuleInit.      *)
(***************************************************************************)
Init == StartInit /\ RunInit /\ CallInit /\ DownInit

Next ==
  \/ Startup
  \/ Deliver
  \/ \E m \in Deliveries : Handler(m)

Spec == Init /\ [][Next]_vars

\* startup alone: construction to the registration of the consumer, or exit
Boot == Init /\ [][Startup]_vars

\* every await of startup settles and every timer fires
FairBoot == Boot /\ WF_vars(Startup)

\* the service once onModuleInit has returned after a first successful attempt
Started ==
  /\ RunInit
  /\ CallInit
  /\ DownInit
  /\ pc = "running"
  /\ retries = 0
  /\ lastError = "null"
  /\ attempts = 1
  /\ delays = <<>>
  /\ fault = "null"
  /\ connection = 1
  /\ channel = 1
  /\ openConns = {1}
  /\ openChannels = {1}
  /\ thrown = NoError
  /\ exitCode = -1
  /\ queueDeclared = TRUE
  /\ consumerOn = TRUE

Consuming ==
  \/ Deliver
  \/ \E m \in Deliveries : Handler(m)

Run == Started /\ [][Consuming]_vars

\* every continuation that is ready runs, and the pool and the database
\* settle every request
FairRun == Run /\ \A m \in Deliveries : WF_vars(Handler(m))

\* The service as constructed, about to make any one of the three calls of
\* onModuleInit.  Entered at connectRabbit this is onModuleInit itself; the
\* entries at ensureQueue and at consume are those methods called while
\* this.channel is still null, which onModuleInit never does by itself
\* (connectRabbit returns only after it has assigned the channel).
EntryInit ==
  /\ pc \in {"connect", "ensureQueue", "consume"}
  /\ retries = 0
  /\ lastError = "null"
  /\ attempts = 0
  /\ delays = <<>>
  /\ fault = "null"
  /\ connection = 0
  /\ channel = 0
  /\ openConns = {}
  /\ openChannels = {}
  /\ thrown = NoError
  /\ exitCode = -1
  /\ queueDeclared = FALSE
  /\ consumerOn = FALSE
  /\ RunInit
  /\ CallInit
  /\ DownInit

\* startup and the arrival of the first deliveries
Opening == EntryInit /\ [][Startup \/ Deliver]_vars

\* the application context started and later closed, with no delivery
Life == Init /\ [][Startup \/ Destroy]_vars

\* every await of startup and of teardown settles
FairLife == Life /\ WF_vars(Startup) /\ WF_vars(ChannelCloseSettles)
                 /\ WF_vars(ConnectionCloseSettles) /\ WF_vars(PoolEndSettles)

\* consumption while the application context may be closed at any moment
Stop == Started /\ [][Consuming \/ Destroy]_vars

PayloadInit ==
  /\ StartInit
  /\ RunInit
  /\ DownInit
  /\ arg \in [id : FieldValues, name : FieldValues, email : FieldValues]
  /\ ret = NotCalled

Parsing == PayloadInit /\ [][ParseBoth]_vars

\* parseMessage applied to payloads with every kind of eventData
MixedInit ==
  /\ StartInit
  /\ RunInit
  /\ DownInit
  /\ arg \in [eventData : EventDataValues, id : {Absent, Str("1")},
               name : {Absent, Str("A")}, email : {Absent, Str("a@x")}]
  /\ ret = NotCalled

Normalizing == MixedInit /\ [][ParseMixed]_vars

\* the timestamps written for payloads with every combination of timestamps
StampInit ==
  /\ StartInit
  /\ RunInit
  /\ DownInit
  /\ arg \in [shape : {"wrapped", "flat"},
               inCreated : TimestampValues, outCreated : TimestampValues,
               inUpdated : TimestampValues, outUpdated : TimestampValues]
  /\ ret = NotCalled

Stamping == StampInit /\ [][StampBoth]_vars

\* a redelivery: the same record upserted twice into any table
RedeliveryInit ==
  /\ StartInit
  /\ RunInit
  /\ DownInit
  /\ arg \in [table : Tables, data : ExplicitRecords]
  /\ ret = NotCalled

Redelivery == RedeliveryInit /\ [][UpsertTwice]_vars

(***************************************************************************)
(* Properties.                                                             *)
(***************************************************************************)
Kinds(m) == {disp[m][i].kind : i \in DOMAIN disp[m]}
Acked(m) == "ack" \in Kinds(m)
Nacked(m) == "nack" \in Kinds(m)
NackNoRequeue == [kind |-> "nack", allUpTo |-> FALSE, requeue |-> FALSE]
AppliedBy(m) == {i \in DOMAIN applied : applied[i].by = m}
InFlight == {m \in Deliveries : hpc[m] \notin {"idle", "done", "crashed"}}

\* C1: every message delivered to the callback gets exactly one disposition,
\* an ack or a nack without requeue: at no time has a delivery two
\* dispositions, a disposition issued is never taken back, and again and
\* again every message delivered so far has its one disposition (so each
\* delivery eventually has one).
C1_ExactlyOneDisposition ==
  /\ [](\A m \in Deliveries :
          /\ Len(disp[m]) <= 1
          /\ \A i \in DOMAIN disp[m] :
               \/ disp[m][i].kind = "ack"
               \/ disp[m][i] = NackNoRequeue)
  /\ [][\A m \in Deliveries : Len(disp[m]) <= Len(disp'[m])]_vars
  /\ []<>(\A m \in Deliveries : delivered >= m => Len(disp[m]) = 1)

C1_Witness ==
  \E m, n \in Deliveries :
    /\ hpc[m] = "done" /\ Kinds(m) = {"ack"}
    /\ hpc[n] = "done" /\ disp[n] = <<NackNoRequeue>>

\* C2: messages are processed strictly one at a time: at any moment at most
\* one delivery is between its receipt and its ack or nack.
C2_OneAtATime == Cardinality(InFlight) <= 1

\* C3: a message is acked only after its statement has been executed
\* successfully and upsertPerson has returned without error, and nacked only
\* after its attempt has failed; no disposition exists while the handler is
\* still inside upsertPerson; a message whose write failed or was never
\* attempted is not acked.
C3_DispositionAfterWrite ==
  \A m \in Deliveries :
    /\ hpc[m] \in {"awaitConn", "awaitExec", "resolved", "failed"} => disp[m] = <<>>
    /\ Acked(m) => /\ AppliedBy(m) # {}
                   /\ err[m] = "none"
                   /\ m \notin borrowed
    /\ Nacked(m) => err[m] # "none"
    /\ (err[m] # "none" \/ execCalls[m] = 0) => ~Acked(m)

C3_Witness ==
  \E m, n \in Deliveries :
    /\ Acked(m) /\ AppliedBy(m) # {}
    /\ Nacked(n) /\ err[n] = "storage error"

\* C4: every message whose processing fails (malformed body, missing field,
\* database failure) ends rejected: it is nacked with requeue = false, it is
\* never acked, and no nack with requeue = true is ever issued.  A failure,
\* once raised, stays; again and again every message that has failed so far
\* has ended with its nack (so each failing message ends rejected).
C4_FailuresRejected ==
  /\ [](\A m \in Deliveries :
          /\ err[m] # "none" => ~Acked(m)
          /\ \A i \in DOMAIN disp[m] :
               disp[m][i].kind = "nack" => disp[m][i].requeue = FALSE)
  /\ [][\A m \in Deliveries : err[m] # "none" => err'[m] = err[m]]_vars
  /\ []<>(\A m \in Deliveries :
            err[m] # "none" => (hpc[m] = "done" /\ disp[m] = <<NackNoRequeue>>))

C4_Witness ==
  \E m, n \in Deliveries :
    /\ err[m] = "SyntaxError" /\ hpc[m] = "done" /\ disp[m] = <<NackNoRequeue>>
    /\ err[n] \in {"storage error", "Missing required person fields"}
    /\ hpc[n] = "done" /\ disp[n] = <<NackNoRequeue>>

\* C5: a record whose id, name or email is missing or empty is rejected by
\* upsertPerson with the validation error before any database interaction:
\* no connection is requested or held, no statement is executed, and the
\* table holds nothing of it.
MissingOrEmpty(v) == v = Undefined \/ v = Null \/ v = Str("")
Incomplete(r) == MissingOrEmpty(r.id) \/ MissingOrEmpty(r.name) \/ MissingOrEmpty(r.email)

C5_ValidationBeforeDatabase ==
  \A m \in Deliveries :
    (delivered >= m /\ parseMessage(body[m]).ok /\ Incomplete(parseMessage(body[m]).rec))
      => /\ err[m] = "Missing required person fields"
         /\ getConnCalls[m] = 0
         /\ execCalls[m] = 0
         /\ m \notin borrowed
         /\ AppliedBy(m) = {}
         /\ hpc[m] \in {"catch", "done"}

C5_Witness ==
  \E m, n \in Deliveries :
    /\ m # n
    /\ hpc[m] = "done" /\ parseMessage(body[m]).ok
    /\ parseMessage(body[m]).rec.email = Undefined
    /\ hpc[n] = "done" /\ parseMessage(body[n]).ok
    /\ parseMessage(body[n]).rec.id = Str("")

\* C6: after any sequence of successful upserts the table holds exactly one
\* row per id that was upserted; its createdAt is that of the first statement
\* executed for the id, and its name, email and updatedAt are those of the
\* last statement executed for the id, also when that one carries an older
\* updatedAt.
StatementsFor(id) == {i \in DOMAIN applied : applied[i].row.id = id}
FirstOf(S) == CHOOSE i \in S : \A j \in S : i <= j
LastOf(S) == CHOOSE i \in S : \A j \in S : j <= i

C6_OneRowPerId ==
  /\ \A r \in table : StatementsFor(r.id) # {}
  /\ \A i \in DOMAIN applied :
       LET id == applied[i].row.id
           first == applied[FirstOf(StatementsFor(id))].row
           last == applied[LastOf(StatementsFor(id))].row
       IN  /\ Cardinality({r \in table : r.id = id}) = 1
           /\ \A r \in table :
                r.id = id => /\ r.createdAt = first.createdAt
                             /\ r.name = last.name
                             /\ r.email = last.email
                             /\ r.updatedAt = last.updatedAt

C6_Witness ==
  /\ Len(applied) = 2
  /\ applied[1].row.id = applied[2].row.id
  /\ applied[2].row.updatedAt < applied[1].row.updatedAt
  /\ applied[2].row.createdAt # applied[1].row.createdAt
  /\ applied[2].row.name # applied[1].row.name
  /\ \E r \in table : r.id = applied[1].row.id /\ r.updatedAt = applied[2].row.updatedAt

\* C7: connectRabbit terminates after at most 10 attempts.  After a
\* successful attempt connection and channel are set and no further attempt
\* is made.  After 10 failures it throws an error carrying the message of the
\* last failure; then the queue is never declared, the consumer is never
\* registered, and the process exits with a non-zero status.
Connecting == pc \in {"connect", "createChannel", "sleep"}
Connected == pc \in {"ensureQueue", "consume", "running"}
Exhausted == thrown.after # 0

C7_ConnectTerminates ==
  /\ [](attempts <= 10)
  /\ [](Connected => connection # 0 /\ channel = connection /\ connection \in openConns)
  /\ [][~Connecting => attempts' = attempts]_vars
  /\ [](Exhausted => /\ thrown.after = 10
                     /\ attempts = 10
                     /\ thrown.message = fault
                     /\ ~queueDeclared
                     /\ ~consumerOn
                     /\ pc \in {"rejected", "exited"})
  /\ [](pc = "exited" => exitCode # 0 /\ exitCode # -1)
  /\ <>(~Connecting)
  /\ Exhausted ~> (pc = "exited")

C7_Witness ==
  /\ pc = "exited"
  /\ thrown = [after |-> 10, message |-> "ETIMEDOUT"]
  /\ attempts = 10
  /\ exitCode = 1
  /\ channel = 0

\* C8: the wait after the k-th failed attempt is min(1000 * 2^(k-1), 30000)
\* ms: 1000, 2000, 4000, 8000, 16000 and then 30000; k failures are followed
\* by exactly k waits, and a successful attempt by none.
Schedule == <<1000, 2000, 4000, 8000, 16000, 30000, 30000, 30000, 30000, 30000>>
FailedAttempts ==
  IF pc = "createChannel" \/ Connected \/ (pc \in {"rejected", "exited"} /\ ~Exhausted)
    THEN attempts - 1
    ELSE attempts

C8_BackoffSchedule ==
  /\ Len(delays) = FailedAttempts
  /\ Len(delays) = retries
  /\ Len(delays) <= Len(Schedule)
  /\ \A k \in DOMAIN delays : delays[k] = Schedule[k]

C8_Witness ==
  /\ pc = "ensureQueue"
  /\ attempts = 4
  /\ delays = <<1000, 2000, 4000>>

\* C9: a failed message does not block later ones.  After a message has ended
\* in a parse, validation or storage failure the consumer stays registered,
\* no error leaves the callback, and a valid message delivered afterwards is
\* still parsed, upserted and handled to its end: it is acked when its own
\* database calls succeed.
FailedBefore(m) == afterFailure[m]
ValidBody(m) == parseMessage(body[m]).ok /\ ~Incomplete(parseMessage(body[m]).rec)

C9_FailuresDoNotBlock ==
  /\ [](escaped = {} /\ consumerOn /\ pc = "running")
  /\ [](\A m \in Deliveries :
          (FailedBefore(m) /\ ValidBody(m)) =>
             /\ getConnCalls[m] = 1
             /\ hpc[m] # "crashed"
             /\ (hpc[m] = "done" /\ AppliedBy(m) # {}) => disp[m] = <<AckOf>>)
  /\ []<>(\A m \in Deliveries : (FailedBefore(m) /\ ValidBody(m)) => hpc[m] = "done")

C9_Witness ==
  \E m \in Deliveries :
    /\ FailedBefore(m)
    /\ ValidBody(m)
    /\ hpc[m] = "done"
    /\ disp[m] = <<AckOf>>
    /\ \E r \in table : r.id = parseMessage(body[m]).rec.id.v

\* C10: for every id, name and email, parsing the wrapped payload
\* {eventData: {id, name, email}} and the flat payload {id, name, email}
\* gives equal records: the same id, name and email, and createdAt and
\* updatedAt absent in both.
ValueRead(v) == IF v = Absent THEN Undefined ELSE v

C10_ShapeTolerance ==
  ret # NotCalled =>
    /\ ret.wrapped.ok
    /\ ret.flat.ok
    /\ ret.wrapped.rec = ret.flat.rec
    /\ ret.wrapped.rec.id = ValueRead(arg.id)
    /\ ret.wrapped.rec.name = ValueRead(arg.name)
    /\ ret.wrapped.rec.email = ValueRead(arg.email)
    /\ ret.wrapped.rec.createdAt = Undefined
    /\ ret.flat.rec.updatedAt = Undefined

C10_Witness ==
  /\ arg = [id |-> Str("1"), name |-> Str("A"), email |-> Str("a@x.com")]
  /\ ret # NotCalled
  /\ ret.wrapped.rec.email = Str("a@x.com")
  /\ ret.flat.rec.id = Str("1")

\* C11: onModuleDestroy makes its close calls in the order channel close,
\* connection close, pool drain; a call whose promise rejects does not stop
\* the later calls from being made; and onModuleDestroy never rejects: once
\* called it returns, with all three calls made and both fields null.
TeardownOrder == <<"channel.close", "connection.close", "pool.end">>

C11_TeardownBestEffort ==
  /\ [](/\ Len(teardown) <= Len(TeardownOrder)
        /\ \A i \in DOMAIN teardown : teardown[i] = TeardownOrder[i])
  /\ [](dpc # "rejected")
  /\ [](dpc = "returned" => /\ teardown = TeardownOrder
                            /\ channel = 0
                            /\ connection = 0)
  /\ (dpc # "idle") ~> (dpc = "returned")

C11_Witness ==
  /\ dpc = "returned"
  /\ teardown = TeardownOrder
  /\ failed = {"channel.close", "connection.close", "pool.end"}

\* C12: parseMessage takes id, name and email from obj.eventData only when
\* that field is present and is itself an object; when it is absent, null,
\* or a string, number or boolean, it takes them from the top-level object.
IsObject(v) == v.t = "object"
ReadFrom(a) == IF IsObject(a.eventData) THEN a.eventData ELSE ObjectOf(a)

C12_EventDataOnlyIfObject ==
  ret # NotCalled =>
    /\ ret.mixed.ok
    /\ ret.mixed.rec.id = Get(ReadFrom(arg), "id")
    /\ ret.mixed.rec.name = Get(ReadFrom(arg), "name")
    /\ ret.mixed.rec.email = Get(ReadFrom(arg), "email")

\* C13: an upsertPerson call that passes validation asks the pool for one
\* connection; once it has it, it executes exactly one statement on it and
\* releases it before it returns or throws, whether the statement succeeded
\* or failed.  So the connections borrowed are those of handlers inside
\* upsertPerson: never more than the handlers in flight, never more than the
\* pool limit of 10, and none when no handler is in flight.
PassedValidation(m) ==
  /\ delivered >= m
  /\ parseMessage(body[m]).ok
  /\ ~Invalid(parseMessage(body[m]).rec)
HoldsConnection(m) == hpc[m] \in {"awaitExec", "resolved", "failed"}
LeftUpsert(m) == hpc[m] \in {"returned", "catch", "done", "crashed"}

C13_ConnectionDiscipline ==
  /\ \A m \in Deliveries :
       /\ execCalls[m] <= getConnCalls[m]
       /\ getConnCalls[m] <= 1
       /\ PassedValidation(m) => getConnCalls[m] = 1
       /\ hpc[m] = "awaitConn" => execCalls[m] = 0
       /\ (m \in borrowed) = HoldsConnection(m)
       /\ HoldsConnection(m) => execCalls[m] = 1
       /\ (LeftUpsert(m) /\ PassedValidation(m) /\ err[m] # "pool error")
            => execCalls[m] = 1
  /\ borrowed \subseteq InFlight
  /\ Cardinality(borrowed) <= Cardinality(InFlight)
  /\ Cardinality(borrowed) <= 10
  /\ InFlight = {} => borrowed = {}

C13_Witness ==
  \E m, n \in Deliveries :
    /\ hpc[m] = "done" /\ err[m] = "storage error" /\ execCalls[m] = 1
    /\ hpc[n] = "done" /\ Acked(n) /\ execCalls[n] = 1
    /\ applied[1].by = n
    /\ borrowed = {}

\* C14: however the handlers of deliveries with the same id interleave, the
\* row of that id is never a mixture of two messages: there is one row, its
\* name, email and updatedAt are together those of one statement, the one
\* executed last for the id, which is the statement of one handler, and its
\* createdAt is that of the statement executed first.
Triple(r) == <<r.name, r.email, r.updatedAt>>

C14_NoMixedRow ==
  \A r \in table :
    LET S == StatementsFor(r.id)
    IN  /\ S # {}
        /\ \A q \in table : q.id = r.id => q = r
        /\ Triple(r) = Triple(applied[LastOf(S)].row)
        /\ \E m \in Deliveries : /\ applied[LastOf(S)].by = m
                                  /\ Triple(r) = Triple(stmt[m])
        /\ r.createdAt = applied[FirstOf(S)].row.createdAt

C14_Witness ==
  /\ Len(applied) = 2
  /\ applied[1].by = 2
  /\ applied[2].by = 1
  /\ applied[1].row.id = applied[2].row.id
  /\ applied[1].row.name # applied[2].row.name
  /\ \E r \in table : /\ r.id = applied[1].row.id
                       /\ Triple(r) = Triple(stmt[1])
                       /\ r.createdAt = stmt[2].createdAt
                       /\ r.createdAt # stmt[1].createdAt

\* C15: the createdAt written is the date of eventData.createdAt if the
\* message has one, else the date of the top-level createdAt if it has one,
\* else the processing time at the write; likewise updatedAt.  A timestamp
\* the message supplies is never replaced by the processing time.  (A value
\* of null counts as not supplied.)
Supplied(v) == v # Absent /\ v # Null
Chain(shape, inner, outer) ==
  IF shape = "wrapped" /\ Supplied(inner) THEN inner
  ELSE IF Supplied(outer) THEN outer
  ELSE Absent
Written(v, now) == IF Supplied(v) THEN DateOf(v.v) ELSE now

C15_TimestampChain ==
  ret # NotCalled =>
    /\ ret.params.createdAt =
         Written(Chain(arg.shape, arg.inCreated, arg.outCreated), ret.nowC)
    /\ ret.params.updatedAt =
         Written(Chain(arg.shape, arg.inUpdated, arg.outUpdated), ret.nowU)

\* C16: startup is ordered connect, declare the queue, register the consumer.
\* The queue is declared only from ensureQueue with a channel that exists
\* and is open, the consumer is registered only from consume after the queue
\* has been declared, and no message is delivered before both; a delivery by
\* itself acknowledges nothing (explicit-ack mode).  ensureQueue and consume
\* called while the channel is null reject with "Channel not initialized"
\* and touch nothing at the broker.
BrokerState == <<openConns, openChannels, queueDeclared, consumerOn, attempts, delivered>>

C16_StartupOrder ==
  /\ [](consumerOn => queueDeclared)
  /\ [](queueDeclared => /\ channel # 0
                         /\ channel \in openChannels
                         /\ connection \in openConns)
  /\ [](delivered > 0 => queueDeclared /\ consumerOn)
  /\ [](\A m \in Deliveries : ~Acked(m))
  /\ [][(~queueDeclared /\ queueDeclared')
          => (pc = "ensureQueue" /\ channel # 0 /\ pc' = "consume")]_vars
  /\ [][(~consumerOn /\ consumerOn')
          => (pc = "consume" /\ queueDeclared /\ pc' = "running")]_vars
  /\ [][(pc \in {"ensureQueue", "consume"} /\ channel = 0)
          => /\ pc' = "rejected"
             /\ thrown' = PlainError("Channel not initialized")
             /\ BrokerState' = BrokerState]_vars

C16_Witness ==
  /\ pc = "running"
  /\ attempts = 2
  /\ queueDeclared
  /\ consumerOn
  /\ delivered = 1

\* the guard of ensureQueue and of consume has fired
C16_GuardWitness ==
  /\ pc = "rejected"
  /\ thrown = PlainError("Channel not initialized")
  /\ attempts = 0

\* C17: upsertPerson is idempotent under redelivery: for every table and
\* every valid record that carries a createdAt and an updatedAt, the table
\* after upserting the record twice in a row equals the table after
\* upserting it once.
C17_Idempotent == ret # NotCalled => ret.twice = ret.once

\* C18: during the connect-retry sequence and ever after, at most one broker
\* connection and at most one channel are open, and an open connection is
\* the one this.connection holds; so once onModuleDestroy has returned no
\* connection is left open.
C18_SingleConnection ==
  /\ Cardinality(openConns) <= 1
  /\ Cardinality(openChannels) <= 1
  /\ openConns \subseteq {connection}
  /\ dpc = "returned" => openConns = {}

\* C19: when onModuleDestroy runs while a handler awaits its database write,
\* the handler, once its statement has been issued, never calls ack or nack
\* through a channel that teardown has closed or set to null (the call would
\* throw), and no error leaves the handler's try/catch.
C19_HandlerSafeOnShutdown ==
  \A m \in Deliveries :
    execCalls[m] = 1 => /\ err[m] # "channel error"
                        /\ m \notin escaped

====
